---- MODULE Spec2Model ----
(***************************************************************************)
(* A model of src/main.py: the B-tree index (BTreeNode, BTreeIndex), the   *)
(* Collection that coordinates the storage directory with its indexes, and *)
(* QueryEngine.execute.                                                    *)
(*                                                                         *)
(* Python lists are TLA+ sequences; the operators that take a list         *)
(* position take the 0-based position the source uses.  Field values and   *)
(* document identifiers are drawn from one comparable type (they are       *)
(* numbered strings), so that the tuple comparisons of bisect never raise. *)
(***************************************************************************)
EXTENDS Integers, Sequences, FiniteSets, TLC

----------------------------------------------------------------------------
(* Bounds of the model *)

MaxKey == 3
MaxInserts == 9
MaxDegree == 3
MaxName == 2
MaxDocs == 2
MaxSteps == 4
MaxBackfill == 4

----------------------------------------------------------------------------
(* Python list primitives *)

Min(a, b) == IF a < b THEN a ELSE b

Range(f) == { f[x] : x \in DOMAIN f }

\* s[lo:hi], clamped the way Python clamps a slice
PySlice(s, lo, hi) ==
    LET l == Min(lo, Len(s))
        h == Min(hi, Len(s))
    IN  IF l >= h THEN << >> ELSE SubSeq(s, l + 1, h)

\* s[lo:]
PyFrom(s, lo) == PySlice(s, lo, Len(s))

\* s.insert(i, x)
PyInsert(s, i, x) ==
    LET p == Min(i, Len(s))
    IN  PySlice(s, 0, p) \o << x >> \o PyFrom(s, p)

\* s with s[i] = x
PySet(s, i, x) == [s EXCEPT ![i + 1] = x]

\* s[i]
PyGet(s, i) == s[i + 1]

----------------------------------------------------------------------------
(* Compound keys: Python's tuple comparison *)

RECURSIVE TupleLessFrom(_, _, _)
TupleLessFrom(a, b, i) ==
    IF i > Len(a) \/ i > Len(b) THEN Len(a) < Len(b)
    ELSE IF a[i] = b[i] THEN TupleLessFrom(a, b, i + 1)
    ELSE a[i] < b[i]

TupleLess(a, b) == TupleLessFrom(a, b, 1)

\* bisect.bisect_left(a, x): the binary search of the standard library
RECURSIVE BisectLeftLoop(_, _, _, _)
BisectLeftLoop(a, x, lo, hi) ==
    IF lo < hi
    THEN LET mid == (lo + hi) \div 2
         IN  IF TupleLess(PyGet(a, mid), x)
             THEN BisectLeftLoop(a, x, mid + 1, hi)
             ELSE BisectLeftLoop(a, x, lo, mid)
    ELSE lo

bisect_left(a, x) == BisectLeftLoop(a, x, 0, Len(a))

\* bisect.bisect_right(a, x)
RECURSIVE BisectRightLoop(_, _, _, _)
BisectRightLoop(a, x, lo, hi) ==
    IF lo < hi
    THEN LET mid == (lo + hi) \div 2
         IN  IF TupleLess(x, PyGet(a, mid))
             THEN BisectRightLoop(a, x, lo, mid)
             ELSE BisectRightLoop(a, x, mid + 1, hi)
    ELSE lo

bisect_right(a, x) == BisectRightLoop(a, x, 0, Len(a))

----------------------------------------------------------------------------
(* BTreeNode *)

\* BTreeNode.__init__
BTreeNode(t, leaf) == [t |-> t, leaf |-> leaf, keys |-> << >>, values |-> << >>]

\* The sibling z that split_child builds from the full child y
SplitSibling(y) ==
    [t |-> y.t, leaf |-> y.leaf,
     keys |-> PyFrom(y.keys, y.t),
     values |-> PyFrom(y.values, y.t)]

\* The child y as split_child leaves it, before y.keys.pop()
SplitTruncated(y) ==
    [y EXCEPT !.keys = PySlice(y.keys, 0, y.t - 1),
              !.values = IF y.leaf THEN PySlice(y.values, 0, y.t - 1)
                         ELSE PySlice(y.values, 0, y.t)]

\* self.split_child(i, y), where y is self.values[i] (both call sites pass
\* the child held at position i): y.keys.pop() removes and promotes the last
\* key y has kept
split_child(self, i, y) ==
    LET z  == SplitSibling(y)
        yt == SplitTruncated(y)
        up == yt.keys[Len(yt.keys)]
        y2 == [yt EXCEPT !.keys = PySlice(yt.keys, 0, Len(yt.keys) - 1)]
    IN  [self EXCEPT !.keys = PyInsert(self.keys, i, up),
                     !.values = PyInsert(PySet(self.values, i, y2), i + 1, z)]

\* The leaf branch of insert_non_full
LeafInsert(self, key, value) ==
    LET pos == bisect_left(self.keys, key)
    IN  IF pos < Len(self.keys) /\ PyGet(self.keys, pos) = key
        THEN [self EXCEPT !.values =
                 PySet(self.values, pos, Append(PyGet(self.values, pos), value))]
        ELSE [self EXCEPT !.keys = PyInsert(self.keys, pos, key),
                          !.values = PyInsert(self.values, pos, << value >>)]

RECURSIVE insert_non_full(_, _, _)
insert_non_full(self, key, value) ==
    IF self.leaf THEN LeafInsert(self, key, value)
    ELSE LET i0    == bisect_right(self.keys, key)
             child == PyGet(self.values, i0)
             full  == Len(child.keys) = 2 * self.t - 1
             s1    == IF full THEN split_child(self, i0, child) ELSE self
             i     == IF full /\ TupleLess(PyGet(s1.keys, i0), key)
                      THEN i0 + 1 ELSE i0
         IN  [s1 EXCEPT !.values =
                 PySet(s1.values, i, insert_non_full(PyGet(s1.values, i), key, value))]

\* BTreeNode.search: what it returns is self.values[i] on a key match (a
\* bucket in a leaf, a child node in an internal node), [] on a miss in a
\* leaf.  isnode records which kind of Python object came back.
RECURSIVE search(_, _)
search(self, key) ==
    LET i == bisect_left(self.keys, key)
    IN  IF i < Len(self.keys) /\ PyGet(self.keys, i) = key
        THEN [isnode |-> ~self.leaf, val |-> PyGet(self.values, i)]
        ELSE IF self.leaf THEN [isnode |-> FALSE, val |-> << >>]
        ELSE search(PyGet(self.values, i), key)

----------------------------------------------------------------------------
(* BTreeIndex *)

None == 0

\* BTreeIndex.__init__
BTreeIndex(fields, t) == [fields |-> fields, t |-> t, root |-> BTreeNode(t, TRUE)]

\* doc.get(f)
DocGet(doc, f) == IF f \in DOMAIN doc THEN doc[f] ELSE None

\* BTreeIndex._extract_key
extract_key(fields, doc) == [i \in 1..Len(fields) |-> DocGet(doc, fields[i])]

\* The root after the root-split step of BTreeIndex.insert
SplitRoot(idx) ==
    LET r == idx.root
    IN  IF Len(r.keys) = 2 * idx.t - 1
        THEN split_child([BTreeNode(idx.t, FALSE) EXCEPT !.values = << r >>], 0, r)
        ELSE r

\* BTreeIndex.insert, run to completion under the index lock
index_insert(idx, doc, doc_id) ==
    [idx EXCEPT !.root = insert_non_full(SplitRoot(idx), extract_key(idx.fields, doc), doc_id)]

\* BTreeIndex.find
index_find(idx, key_tuple) == search(idx.root, key_tuple)

----------------------------------------------------------------------------
(* Documents, predicates and the storage directory *)

\* CONFIG["btree_degree"]
btree_degree == 2

\* The identifier Collection.insert generates when the directory holds n
\* files: f"{threading.get_ident()}_{n}", for the one calling thread
GenId(n) == 100 + n

\* The values of the fields of the documents of the model: names, one age,
\* and one identifier that callers give themselves
Names == 1..MaxName
Ages == { 7 }
ExplicitIds == { 50 }

\* The directory: a function from the identifiers that have a file to the
\* document the file holds
NoFiles == << >>

Put(fs, id, doc) == [i \in DOMAIN fs \cup { id } |-> IF i = id THEN doc ELSE fs[i]]
Remove(fs, id) == [i \in DOMAIN fs \ { id } |-> fs[i]]

\* dict.update
DictUpdate(doc, updates) ==
    [f \in DOMAIN doc \cup DOMAIN updates |->
        IF f \in DOMAIN updates THEN updates[f] ELSE doc[f]]

\* str(v): the values of the model are strings already; None prints as "None"
StrNone == -1
Str(v) == IF v = None THEN StrNone ELSE v

\* The callable of _make_eval (and lambda d: True for the empty conjunction):
\* every clause k = v must hold of str(doc.get(k))
Cond(pred, doc) == \A k \in DOMAIN pred : Str(DocGet(doc, k)) = pred[k]

\* The orders os.listdir may list a directory in
Listings(fs) ==
    { o \in [1..Cardinality(DOMAIN fs) -> DOMAIN fs] :
        \A i, j \in DOMAIN o : i # j => o[i] # o[j] }

\* An ids argument: None, or a Python object (a list of identifiers, or the
\* BTreeNode that search can hand back)
NoIds == [none |-> TRUE, isnode |-> FALSE, val |-> << >>]
IdList(s) == [none |-> FALSE, isnode |-> FALSE, val |-> s]

\* bool(ids): None and the empty list are falsy, a BTreeNode is truthy
Truthy(ids) == ~ids.none /\ (ids.isnode \/ ids.val # << >>)

----------------------------------------------------------------------------
(* Collection *)

\* key in self.indexes
HasIndex(indexes, key) == \E i \in 1..Len(indexes) : indexes[i].fields = key

\* The backfill loop of create_index over the listing order
\* a backfill that reads the directory afresh instead of the listing it took
RECURSIVE BackfillLive(_, _, _, _)
BackfillLive(idx, fs, order, i) ==
    LET live == CHOOSE o \in Listings(fs) : TRUE
    IN  IF i > Len(live) THEN idx
        ELSE BackfillLive(index_insert(idx, fs[live[i]], fs[live[i]]._id), fs, order, i + 1)

RECURSIVE Backfill(_, _, _, _)
Backfill(idx, fs, order, i) ==
    IF i > Len(order) THEN idx
    ELSE Backfill(index_insert(idx, fs[order[i]], fs[order[i]]._id), fs, order, i + 1)

\* Collection.create_index: the indexes afterwards
create_index(indexes, fs, key, order) ==
    IF HasIndex(indexes, key) THEN indexes
    ELSE Append(indexes, Backfill(BTreeIndex(key, btree_degree), fs, order, 1))

\* Collection._update_indexes
update_indexes(indexes, doc) ==
    [i \in 1..Len(indexes) |-> index_insert(indexes[i], doc, doc._id)]

\* The identifier Collection.insert stores doc under
InsertId(fs, doc) ==
    IF DocGet(doc, "_id") # None THEN doc._id ELSE GenId(Cardinality(DOMAIN fs))

\* Collection.insert
coll_insert(fs, indexes, doc) ==
    LET doc_id == InsertId(fs, doc)
        d      == DictUpdate(doc, [_id |-> doc_id])
    IN  [files |-> Put(fs, doc_id, d), indexes |-> update_indexes(indexes, d), id |-> doc_id]

\* Collection.find_ids_by_index: the first index, in registration order,
\* whose fields are all among field_values
RECURSIVE FindIdsFrom(_, _, _)
FindIdsFrom(indexes, field_values, i) ==
    IF i > Len(indexes) THEN NoIds
    ELSE LET key == indexes[i].fields
         IN  IF \A j \in 1..Len(key) : key[j] \in DOMAIN field_values
             THEN LET r == index_find(indexes[i], [j \in 1..Len(key) |-> field_values[key[j]]])
                  IN  [none |-> FALSE, isnode |-> r.isnode, val |-> r.val]
             ELSE FindIdsFrom(indexes, field_values, i + 1)

find_ids_by_index(indexes, field_values) == FindIdsFrom(indexes, field_values, 1)

\* The list of identifiers load_docs reads: the listing, or the members of ids
\* that have a file, in the order and number ids names them
LoadList(fs, ids, order) ==
    IF Truthy(ids) THEN SelectSeq(ids.val, LAMBDA id : id \in DOMAIN fs)
    ELSE order

\* Collection.load_docs; err: iterating a BTreeNode raises TypeError
load_docs(fs, ids, order) ==
    IF Truthy(ids) /\ ids.isnode THEN [err |-> TRUE, docs |-> << >>]
    ELSE LET l == LoadList(fs, ids, order)
         IN  [err |-> FALSE, docs |-> [i \in 1..Len(l) |-> fs[l[i]]]]

\* The loop of Collection.update over the loaded documents
RECURSIVE UpdateLoop(_, _, _, _, _, _)
UpdateLoop(fs, docs, i, updates, pred, count) ==
    IF i > Len(docs) THEN [err |-> FALSE, files |-> fs, count |-> count]
    ELSE IF Cond(pred, docs[i])
         THEN LET d == DictUpdate(docs[i], updates)
              IN  UpdateLoop(Put(fs, d._id, d), docs, i + 1, updates, pred, count + 1)
         ELSE UpdateLoop(fs, docs, i + 1, updates, pred, count)

\* An update that also runs _update_indexes on each document it rewrites
RECURSIVE ReindexLoop(_, _, _, _, _)
ReindexLoop(indexes, docs, i, updates, pred) ==
    IF i > Len(docs) THEN indexes
    ELSE IF Cond(pred, docs[i])
         THEN ReindexLoop(update_indexes(indexes, DictUpdate(docs[i], updates)),
                          docs, i + 1, updates, pred)
         ELSE ReindexLoop(indexes, docs, i + 1, updates, pred)

coll_update_reindexing(fs, indexes, updates, pred, ids, order) ==
    LET l == load_docs(fs, ids, order)
        r == IF l.err THEN [err |-> TRUE, files |-> fs, count |-> 0]
             ELSE UpdateLoop(fs, l.docs, 1, updates, pred, 0)
    IN  [err |-> r.err, files |-> r.files,
         indexes |-> IF l.err THEN indexes ELSE ReindexLoop(indexes, l.docs, 1, updates, pred),
         count |-> r.count]

\* Collection.update
coll_update(fs, indexes, updates, pred, ids, order) ==
    LET l == load_docs(fs, ids, order)
        r == IF l.err THEN [err |-> TRUE, files |-> fs, count |-> 0]
             ELSE UpdateLoop(fs, l.docs, 1, updates, pred, 0)
    IN  [err |-> r.err, files |-> r.files, indexes |-> indexes, count |-> r.count]

\* The loop of Collection.delete; err: os.remove of a file already removed
\* raises FileNotFoundError
RECURSIVE DeleteLoop(_, _, _, _, _)
DeleteLoop(fs, docs, i, pred, count) ==
    IF i > Len(docs) THEN [err |-> FALSE, files |-> fs, count |-> count]
    ELSE IF Cond(pred, docs[i])
         THEN IF docs[i]._id \in DOMAIN fs
              THEN DeleteLoop(Remove(fs, docs[i]._id), docs, i + 1, pred, count + 1)
              ELSE [err |-> TRUE, files |-> fs, count |-> count]
         ELSE DeleteLoop(fs, docs, i + 1, pred, count)

\* Collection.delete
coll_delete(fs, indexes, pred, ids, order) ==
    LET l == load_docs(fs, ids, order)
        r == IF l.err THEN [err |-> TRUE, files |-> fs, count |-> 0]
             ELSE DeleteLoop(fs, l.docs, 1, pred, 0)
    IN  [err |-> r.err, files |-> r.files, indexes |-> indexes, count |-> r.count]

----------------------------------------------------------------------------
(* QueryEngine *)

\* QueryEngine._make_eval, as execute sees its result at the time it
\* returns: the callable, and the fields dict, which only a call of the
\* callable fills in and which is therefore still empty
make_eval(where) == [cond |-> where, fields |-> << >>]

\* The projection of select: {f: d.get(f) for f in q['fields']}
Project(doc, fields) ==
    IF fields = << "*" >> THEN doc
    ELSE [f \in Range(fields) |-> DocGet(doc, f)]

\* QueryEngine.execute on the directory fs: a new Collection object, with no
\* index, serves each request.  where = {} stands for a request without WHERE.
execute(fs, q, order) ==
    LET coll == << >>
    IN  IF q.cmd = "insert"
        THEN LET r == coll_insert(fs, coll, q.doc)
             IN  [files |-> r.files, ids |-> NoIds, err |-> FALSE, out |-> r.id]
        ELSE IF q.cmd = "index"
        THEN LET built == create_index(coll, fs, q.fields, order)
             IN  [files |-> fs, ids |-> NoIds, err |-> FALSE, out |-> Len(built)]
        ELSE LET e   == IF q.where # << >> THEN make_eval(q.where)
                        ELSE [cond |-> << >>, fields |-> << >>]
                 ids == IF e.fields # << >> THEN find_ids_by_index(coll, e.fields)
                        ELSE NoIds
             IN  IF q.cmd = "update"
                 THEN LET r == coll_update(fs, coll, q.sets, e.cond, ids, order)
                      IN  [files |-> r.files, ids |-> ids, err |-> r.err, out |-> r.count]
                 ELSE IF q.cmd = "delete"
                 THEN LET r == coll_delete(fs, coll, e.cond, ids, order)
                      IN  [files |-> r.files, ids |-> ids, err |-> r.err, out |-> r.count]
                 ELSE LET l == load_docs(fs, ids, order)
                          keep == SelectSeq(l.docs, LAMBDA d : Cond(e.cond, d))
                      IN  [files |-> fs, ids |-> ids, err |-> l.err,
                           out |-> [i \in 1..Len(keep) |-> Project(keep[i], q.fields)]]

----------------------------------------------------------------------------
(* State *)

VARIABLES
    tree,       \* a BTreeIndex driven directly through insert and find
    inserted,   \* the (key, identifier) pairs given to tree.insert, in order
    files,      \* the collection's directory
    indexes,    \* self.indexes of one Collection object, in registration order
    ret,        \* the last call: its arguments and result
    steps,      \* the number of calls made
    requested,  \* the field sets of the index requests QueryEngine has served
    threads,    \* the calls in progress: each running thread's position and locals
    lock        \* the holder of the BTreeIndex's lock, None when it is free

vars == << tree, inserted, files, indexes, ret, steps, requested, threads, lock >>

treeVars == << tree, inserted, requested >>
collVars == << files, indexes, ret, steps >>
concVars == << threads, lock >>

CollStart ==
    /\ files = NoFiles
    /\ indexes = << >>
    /\ ret = [op |-> "init"]
    /\ steps = 0
    /\ requested = {}
    /\ threads = << >>
    /\ lock = None

TreeInit ==
    /\ tree \in { BTreeIndex(<< "name" >>, t) : t \in 2..MaxDegree }
    /\ inserted = << >>
    /\ CollStart

\* tree.insert(doc, doc_id) with a fresh identifier
TreeInsert ==
    /\ Len(inserted) < MaxInserts
    /\ \E k \in 1..MaxKey :
         LET id  == Len(inserted) + 1
             doc == [name |-> k]
         IN  /\ tree' = index_insert(tree, doc, id)
             /\ inserted' = Append(inserted, << << k >>, id >>)
    /\ UNCHANGED << collVars, requested, concVars >>

TreeNext == TreeInsert

SpecTree == TreeInit /\ [][TreeNext]_vars

----------------------------------------------------------------------------
(* One Collection object and its directory *)

\* The documents given to insert: with an _id of their own, or without
InputDocs ==
    { [name |-> n, age |-> a] : n \in Names, a \in Ages }
    \cup { [_id |-> i, name |-> n, age |-> a] : i \in ExplicitIds, n \in Names, a \in Ages }

\* The field sets given to create_index
IndexKeys == { << "name" >>, << "age" >>, << "age", "name" >> }

\* The predicates: conjunctions of field = literal clauses
Preds ==
    { << >> }
    \cup { [name |-> n] : n \in Names }
    \cup { [age |-> a] : a \in Ages }
    \cup { [name |-> n, age |-> a] : n \in Names, a \in Ages }

\* The field updates
Updates ==
    { [name |-> n] : n \in Names } \cup { [age |-> a] : a \in Ages }
    \cup { [_id |-> i] : i \in ExplicitIds }

\* The ids arguments given to update and delete: none, or what
\* find_ids_by_index answers for the predicate's fields
IdsFor(pred) == { NoIds, find_ids_by_index(indexes, pred) }

\* The listing orders that a call with this ids argument can observe.  A
\* truthy ids makes load_docs ignore the listing.  Where every listing gives
\* the same outcome (delete, and an update that leaves _id alone, write or
\* remove one file per listed document) one listing stands for all of them.
OneListing(fs) == CHOOSE o \in Listings(fs) : TRUE

OrdersFor(ids, sensitive) ==
    IF Truthy(ids) THEN { << >> }
    ELSE IF sensitive THEN Listings(files)
    ELSE { OneListing(files) }

\* The number of loaded documents that satisfy pred
Matched(pred, l) == Cardinality({ i \in 1..Len(l.docs) : Cond(pred, l.docs[i]) })

CollInit ==
    /\ tree = BTreeIndex(<< "name" >>, btree_degree)
    /\ inserted = << >>
    /\ CollStart

CollInsert ==
    /\ steps < MaxSteps
    /\ \E doc \in InputDocs :
         LET r == coll_insert(files, indexes, doc)
         IN  /\ Cardinality(DOMAIN r.files) <= MaxDocs
             /\ files' = r.files
             /\ indexes' = r.indexes
             /\ ret' = [op |-> "insert", id |-> r.id,
                        generated |-> DocGet(doc, "_id") = None,
                        existed |-> r.id \in DOMAIN files]
    /\ steps' = steps + 1
    /\ UNCHANGED << treeVars, concVars >>

CollCreateIndex ==
    /\ steps < MaxSteps
    /\ \E key \in IndexKeys, order \in Listings(files) :
         /\ indexes' = create_index(indexes, files, key, order)
         /\ ret' = [op |-> "create_index", key |-> key, existed |-> HasIndex(indexes, key)]
    /\ steps' = steps + 1
    /\ UNCHANGED << files, treeVars, concVars >>

CollUpdate ==
    /\ steps < MaxSteps
    /\ \E updates \in Updates, pred \in Preds :
         \E ids \in IdsFor(pred) :
            \E order \in OrdersFor(ids, "_id" \in DOMAIN updates) :
               LET r == coll_update(files, indexes, updates, pred, ids, order)
               IN  /\ files' = r.files
                   /\ indexes' = r.indexes
                   /\ ret' = [op |-> "update", err |-> r.err, count |-> r.count,
                              matched |-> Matched(pred, load_docs(files, ids, order)),
                              sameIds |-> DOMAIN r.files = DOMAIN files]
    /\ steps' = steps + 1
    /\ UNCHANGED << treeVars, concVars >>

CollDelete ==
    /\ steps < MaxSteps
    /\ \E pred \in Preds :
         \E ids \in IdsFor(pred) :
            \E order \in OrdersFor(ids, FALSE) :
               LET r == coll_delete(files, indexes, pred, ids, order)
               IN  /\ files' = r.files
                   /\ indexes' = r.indexes
                   /\ ret' = [op |-> "delete", err |-> r.err, count |-> r.count,
                              matched |-> Matched(pred, load_docs(files, ids, order))]
    /\ steps' = steps + 1
    /\ UNCHANGED << treeVars, concVars >>

\* The ids arguments given to load_docs directly: None, the empty list, and
\* lists naming stored, removed and never stored identifiers
KnownIds == { GenId(n) : n \in 0..MaxDocs } \cup ExplicitIds
IdArgs ==
    { NoIds, IdList(<< >>) }
    \cup { IdList(<< a >>) : a \in KnownIds }
    \cup { IdList(<< a, b >>) : a, b \in KnownIds }

CollLoadDocs ==
    /\ steps < MaxSteps
    /\ \E ids \in IdArgs :
         \E order \in OrdersFor(ids, TRUE) :
            LET l == load_docs(files, ids, order)
            IN  ret' = [op |-> "load_docs", ids |-> ids, err |-> l.err, docs |-> l.docs]
    /\ steps' = steps + 1
    /\ UNCHANGED << files, indexes, treeVars, concVars >>

CollNext == CollInsert \/ CollCreateIndex \/ CollUpdate \/ CollDelete

Spec == CollInit /\ [][CollNext]_vars

\* load_docs called between inserts and deletes
LoadNext == CollInsert \/ CollDelete \/ CollLoadDocs

SpecLoad == CollInit /\ [][LoadNext]_vars

----------------------------------------------------------------------------
(* create_index on a collection that already holds documents *)

BackfillInsert ==
    /\ indexes = << >>
    /\ Cardinality(DOMAIN files) < MaxBackfill
    /\ \E n \in 1..MaxKey, a \in Ages :
         LET r == coll_insert(files, indexes, [name |-> n, age |-> a])
         IN  /\ files' = r.files
             /\ indexes' = r.indexes
             /\ ret' = [op |-> "insert", id |-> r.id, generated |-> TRUE,
                        existed |-> r.id \in DOMAIN files]
    /\ steps' = steps + 1
    /\ UNCHANGED << treeVars, concVars >>

BackfillCreateIndex ==
    /\ indexes = << >>
    /\ \E key \in IndexKeys, order \in Listings(files) :
         /\ indexes' = create_index(indexes, files, key, order)
         /\ ret' = [op |-> "create_index", key |-> key, existed |-> HasIndex(indexes, key)]
    /\ steps' = steps + 1
    /\ UNCHANGED << files, treeVars, concVars >>

BackfillNext == BackfillInsert \/ BackfillCreateIndex

SpecBackfill == CollInit /\ [][BackfillNext]_vars

----------------------------------------------------------------------------
(* Observations of a tree, used to state the properties *)

\* The identifiers given to tree.insert with key k, in insertion order
RECURSIVE InsertedWith(_, _)
InsertedWith(h, k) ==
    IF h = << >> THEN << >>
    ELSE LET rest == InsertedWith(Tail(h), k)
         IN  IF Head(h)[1] = k THEN << Head(h)[2] >> \o rest ELSE rest

\* Every node of the tree rooted at n, children taken as n.values holds them
RECURSIVE NodesOf(_)
NodesOf(n) ==
    IF n.leaf THEN { n }
    ELSE { n } \cup UNION { NodesOf(n.values[i]) : i \in 1..Len(n.values) }

\* The keys of the leaves, left to right
RECURSIVE LeafKeys(_)
RECURSIVE LeafKeysFrom(_, _)
LeafKeys(n) == IF n.leaf THEN n.keys ELSE LeafKeysFrom(n, 1)
LeafKeysFrom(n, i) ==
    IF i > Len(n.values) THEN << >>
    ELSE LeafKeys(n.values[i]) \o LeafKeysFrom(n, i + 1)

StrictlyIncreasing(s) == \A i \in 1..(Len(s) - 1) : TupleLess(s[i], s[i + 1])
NonDecreasing(s) == \A i \in 1..(Len(s) - 1) : ~TupleLess(s[i + 1], s[i])

QueryKeys == { << k >> : k \in 0..(MaxKey + 1) }

Bucket(ids) == [isnode |-> FALSE, val |-> ids]

----------------------------------------------------------------------------
(* C1 *)

\* C1: after any sequence of inserts, find(k) returns exactly the identifiers
\* inserted with key k, in insertion order, and an empty result for a key
\* that was never inserted.
C1_FindReturnsInserted ==
    \A k \in QueryKeys : index_find(tree, k) = Bucket(InsertedWith(inserted, k))

(* C2 *)

C2_NodeSize == \A n \in NodesOf(tree.root) : Len(n.keys) <= 2 * tree.t - 1
C2_NodeSorted == \A n \in NodesOf(tree.root) : StrictlyIncreasing(n.keys)
C2_LeavesInOrder == NonDecreasing(LeafKeys(tree.root))

\* C2: after every insert every node has at most 2t-1 keys, the keys within
\* each node are strictly increasing, and the leaf keys read left to right
\* are non-decreasing.
C2_SplitInvariant == C2_NodeSize /\ C2_NodeSorted /\ C2_LeavesInOrder

(* C3 *)

Occurrences(s, k) == Cardinality({ i \in 1..Len(s) : s[i] = k })

\* is a, b a pair of identifiers occurring in this order in ids
InOrder(ids, a, b) ==
    \E i, j \in 1..Len(ids) : i < j /\ ids[i] = a /\ ids[j] = b

C3_OneBucket ==
    \A i, j \in 1..Len(inserted) :
        (i < j /\ inserted[i][1] = inserted[j][1]) =>
            LET r == index_find(tree, inserted[i][1])
            IN  ~r.isnode /\ InOrder(r.val, inserted[i][2], inserted[j][2])

C3_OneEntry == \A k \in QueryKeys : Occurrences(LeafKeys(tree.root), k) <= 1

\* C3: a key inserted twice has one bucket holding both identifiers in
\* insertion order, and the tree never holds two entries for one key.
C3_DuplicateBucketing == C3_OneBucket /\ C3_OneEntry

----------------------------------------------------------------------------
(* C4 *)

\* C4: an insert of a document without _id assigns an identifier that no
\* stored document has, so it never overwrites a stored document.
C4_FreshId == (ret.op = "insert" /\ ret.generated) => ~ret.existed

(* C5 *)

\* some index has exactly the fields pred constrains
ExactlyCovered(pred) ==
    /\ DOMAIN pred # {}
    /\ \E i \in 1..Len(indexes) : Range(indexes[i].fields) = DOMAIN pred

\* load_docs() and the predicate filter
ScanPath(pred) == { files[id] : id \in { i \in DOMAIN files : Cond(pred, files[i]) } }

\* find_ids_by_index, load_docs(ids) and the predicate filter
IndexPath(pred, order) ==
    LET l == load_docs(files, find_ids_by_index(indexes, pred), order)
    IN  [err |-> l.err,
         docs |-> { l.docs[i] : i \in { j \in 1..Len(l.docs) : Cond(pred, l.docs[j]) } }]

\* C5: for a predicate whose fields an index covers exactly, the index path
\* and the full scan return the same set of documents.
C5_IndexScanEquivalent ==
    \A pred \in Preds :
        ExactlyCovered(pred) =>
            \A order \in Listings(files) :
                IndexPath(pred, order) = [err |-> FALSE, docs |-> ScanPath(pred)]

(* C6 *)

\* C6: after create_index has built a new index, every stored document is
\* found in it under its compound key.
C6_BackfillComplete ==
    (ret.op = "create_index" /\ ~ret.existed) =>
        \A id \in DOMAIN files :
            LET idx == indexes[Len(indexes)]
                r   == index_find(idx, extract_key(idx.fields, files[id]))
            IN  ~r.isnode /\ id \in Range(r.val)

(* C8 *)

\* C8: load_docs returns every stored document when ids is omitted, and for
\* a list ids exactly the stored documents the list names, without failing.
C8_LoadDocs ==
    ret.op = "load_docs" =>
        /\ ~ret.err
        /\ Range(ret.docs) =
              IF ret.ids.none THEN Range(files)
              ELSE { files[id] : id \in Range(ret.ids.val) \cap DOMAIN files }

(* C9 *)

FieldValues == Names \cup Ages

\* the keys an index can be asked for
ProbeKeys(idx) == [1..Len(idx.fields) -> FieldValues]

SameFinds(old, new) ==
    /\ Len(new) = Len(old)
    /\ \A i \in 1..Len(old) :
          /\ new[i].fields = old[i].fields
          /\ \A key \in ProbeKeys(old[i]) : index_find(new[i], key) = index_find(old[i], key)

\* C9: update and delete leave the answer of find unchanged, for every
\* registered index and every key.
C9_IndexesUntouched ==
    [][ret'.op \in { "update", "delete" } => SameFinds(indexes, indexes')]_vars

\* an update has rewritten a document that an index still lists under the
\* key it had before
C9_StaleAfterUpdate ==
    /\ ret.op = "update" /\ ~ret.err /\ ret.count > 0
    /\ \E i \in 1..Len(indexes) : \E key \in ProbeKeys(indexes[i]) :
          LET r == index_find(indexes[i], key)
          IN  /\ ~r.isnode
              /\ \E id \in Range(r.val) :
                    id \in DOMAIN files /\ extract_key(indexes[i].fields, files[id]) # key

(* C10 *)

\* C10: update re-persists each matching document under the identifier it
\* had, so the identifiers in storage are unchanged, and returns the number
\* of documents it modified.
C10_UpdateInPlace ==
    (ret.op = "update" /\ ~ret.err) => (ret.sameIds /\ ret.count = ret.matched)

----------------------------------------------------------------------------
(* Requests served by QueryEngine.execute on one collection *)

\* some earlier index request named fields that the predicate constrains
Covered(where) == \E key \in requested : Range(key) \subseteq DOMAIN where

EngineStep(q, order, r) ==
    /\ files' = r.files
    /\ ret' = [op |-> q.cmd, err |-> r.err, out |-> r.out, ids |-> r.ids, q |-> q,
               covered |-> q.cmd \notin { "insert", "index" } /\ Covered(q.where)]
    /\ steps' = steps + 1
    /\ UNCHANGED << tree, inserted, indexes, concVars >>

EngineInsert ==
    /\ steps < MaxSteps
    /\ \E doc \in InputDocs :
         LET q == [cmd |-> "insert", doc |-> doc]
             r == execute(files, q, << >>)
         IN  /\ Cardinality(DOMAIN r.files) <= MaxDocs
             /\ EngineStep(q, << >>, r)
    /\ UNCHANGED requested

EngineIndex ==
    /\ steps < MaxSteps
    /\ \E key \in IndexKeys, order \in Listings(files) :
         LET q == [cmd |-> "index", fields |-> key]
         IN  /\ EngineStep(q, order, execute(files, q, order))
             /\ requested' = requested \cup { key }

EngineSelect ==
    /\ steps < MaxSteps
    /\ \E where \in Preds, fields \in { << "*" >>, << "name" >> }, order \in Listings(files) :
         LET q == [cmd |-> "select", fields |-> fields, where |-> where]
         IN  EngineStep(q, order, execute(files, q, order))
    /\ UNCHANGED requested

EngineUpdate ==
    /\ steps < MaxSteps
    /\ \E where \in Preds, sets \in Updates :
       \E order \in OrdersFor(NoIds, "_id" \in DOMAIN sets) :
         LET q == [cmd |-> "update", sets |-> sets, where |-> where]
         IN  EngineStep(q, order, execute(files, q, order))
    /\ UNCHANGED requested

EngineDelete ==
    /\ steps < MaxSteps
    /\ \E where \in Preds, order \in OrdersFor(NoIds, FALSE) :
         LET q == [cmd |-> "delete", where |-> where]
         IN  EngineStep(q, order, execute(files, q, order))
    /\ UNCHANGED requested

EngineNext == EngineInsert \/ EngineIndex \/ EngineSelect \/ EngineUpdate \/ EngineDelete

SpecEngine == CollInit /\ [][EngineNext]_vars

----------------------------------------------------------------------------
(* C7 *)

\* C7: a select, update or delete whose predicate constrains the fields of
\* an index created by an earlier request takes the index path (ids comes
\* from find_ids_by_index), and scans the whole collection only when no
\* index covers the predicate.
C7_IndexPathTaken ==
    ret.op \in { "select", "update", "delete" } => (ret.covered <=> ~ret.ids.none)

(* C11 *)

\* the identifiers of the documents of fs that pass the predicate
Passing(fs, where) == { id \in DOMAIN fs : Cond(where, fs[id]) }

\* new holds the documents of old that do not pass, unchanged
OthersKept(old, new, where) ==
    \A id \in DOMAIN old \ Passing(old, where) :
        id \in DOMAIN new /\ new[id] = old[id]

C11_Update ==
    ret'.op = "update" =>
        LET where == ret'.q.where
        IN  /\ ~ret'.err
            /\ ret'.out = Cardinality(Passing(files, where))
            /\ OthersKept(files, files', where)
            /\ \A id \in Passing(files, where) :
                  id \in DOMAIN files' /\ files'[id] = DictUpdate(files[id], ret'.q.sets)
            /\ DOMAIN files' = DOMAIN files

C11_Delete ==
    ret'.op = "delete" =>
        LET where == ret'.q.where
        IN  /\ ~ret'.err
            /\ ret'.out = Cardinality(Passing(files, where))
            /\ OthersKept(files, files', where)
            /\ DOMAIN files' = DOMAIN files \ Passing(files, where)
            /\ Passing(files', where) = {}

\* C11: an update or delete request is applied to exactly the stored
\* documents that pass its predicate, leaves the others unchanged and
\* returns the number that passed; after a delete no stored document passes.
C11_AppliedToPassing == [][C11_Update /\ C11_Delete]_vars

C11_DeleteOnly == [][C11_Delete]_vars

(* C12 *)

\* the field-to-value mappings a caller may supply
SuppliedFields ==
    UNION { [D -> (1..MaxKey) \cup Ages] : D \in SUBSET { "name", "age" } }

\* the positions of the registered indexes whose whole field-set is supplied
Covering(field_values) ==
    { i \in 1..Len(indexes) :
        \A j \in 1..Len(indexes[i].fields) : indexes[i].fields[j] \in DOMAIN field_values }

FirstCovering(field_values) ==
    CHOOSE i \in Covering(field_values) : \A j \in Covering(field_values) : i <= j

KeyInOrder(idx, field_values) == [j \in 1..Len(idx.fields) |-> field_values[idx.fields[j]]]

\* None exactly when no index is covered; otherwise the answer of the first
\* registered covering index for the key in that index's field order
C12_Selection ==
    \A fv \in SuppliedFields :
        LET r == find_ids_by_index(indexes, fv)
        IN  /\ r.none <=> Covering(fv) = {}
            /\ Covering(fv) # {} =>
                 LET idx == indexes[FirstCovering(fv)]
                     f   == index_find(idx, KeyInOrder(idx, fv))
                 IN  r.isnode = f.isnode /\ r.val = f.val

\* C12: find_ids_by_index returns None exactly when no registered index is
\* covered by the supplied fields, and otherwise the bucket of the first
\* covering index for the key built in that index's field order: the list of
\* the identifiers indexed under that key, empty when there are none.
C12_FindIdsByIndex ==
    /\ C12_Selection
    /\ \A fv \in SuppliedFields :
         Covering(fv) # {} =>
            LET idx == indexes[FirstCovering(fv)]
                r   == find_ids_by_index(indexes, fv)
            IN  /\ ~r.isnode
                /\ Range(r.val) = { id \in DOMAIN files :
                                      extract_key(idx.fields, files[id]) = KeyInOrder(idx, fv) }

(* C15 *)

\* the splits the next insert can perform on the tree: << parent, i, y >>
\* with y the full child held at position i of parent
SplitSites ==
    (IF Len(tree.root.keys) = 2 * tree.t - 1
     THEN { << [BTreeNode(tree.t, FALSE) EXCEPT !.values = << tree.root >>], 0, tree.root >> }
     ELSE {})
    \cup UNION { { << n, i - 1, n.values[i] >> :
                     i \in { j \in 1..Len(n.values) : Len(n.values[j].keys) = 2 * n.t - 1 } } :
                 n \in { m \in NodesOf(tree.root) : ~m.leaf } }

\* split_child(i, y) puts y's middle key at position i of the parent
PromotesMiddle(p, i, y) ==
    PyGet(split_child(p, i, y).keys, i) = PyGet(y.keys, y.t - 1)

\* the sibling linked at i + 1 holds the keys of y above the middle key
LinksSibling(p, i, y) ==
    LET z == PyGet(split_child(p, i, y).values, i + 1)
    IN  /\ z.leaf = y.leaf
        /\ z.keys = PyFrom(y.keys, y.t)

\* every key of y is the promoted key or a key of the two halves, and every
\* child or bucket of y is held by one of the halves
LosesNothing(p, i, y) ==
    LET p2 == split_child(p, i, y)
        y2 == PyGet(p2.values, i)
        z  == PyGet(p2.values, i + 1)
    IN  /\ y2.keys \o << PyGet(p2.keys, i) >> \o z.keys = y.keys
        /\ Range(y.values) \subseteq Range(y2.values) \cup Range(z.values)

\* C15: split_child(i, y) on a full child promotes y's middle key (position
\* t-1) into the parent at position i, links the new sibling at i+1 and loses
\* no key and no value.
C15_SplitPromotesMiddle ==
    \A site \in SplitSites :
        /\ PromotesMiddle(site[1], site[2], site[3])
        /\ LinksSibling(site[1], site[2], site[3])
        /\ LosesNothing(site[1], site[2], site[3])

C15_SiblingLinked == \A site \in SplitSites : LinksSibling(site[1], site[2], site[3])

(* C16 *)

\* C16: in every reachable tree a leaf has as many values as keys and an
\* internal node has one child more than it has keys.
C16_ValuesMatchKeys ==
    \A n \in NodesOf(tree.root) :
        IF n.leaf THEN Len(n.values) = Len(n.keys)
        ELSE Len(n.values) = Len(n.keys) + 1

(* C17 *)

\* the keys held by the internal nodes of the tree
Separators(idx) == UNION { Range(n.keys) : n \in { m \in NodesOf(idx.root) : ~m.leaf } }

\* the step inserts an identifier under a key that was a separator, and find
\* then descends to a bucket holding that identifier
SeparatorInsertFound ==
    (Len(inserted') = Len(inserted) + 1 /\ inserted'[Len(inserted')][1] \in Separators(tree)) =>
        LET r == index_find(tree', inserted'[Len(inserted')][1])
        IN  ~r.isnode /\ inserted'[Len(inserted')][2] \in Range(r.val)

\* C17: a key equal to a separator is routed to the same child by
\* insert_non_full and by search, so an identifier inserted under such a key
\* is in the bucket find returns for it.
C17_SeparatorRouting == [][SeparatorInsertFound]_vars

(* C18 *)

\* C18: find returns a bucket only for an exact match in a leaf and [] for a
\* miss in a leaf, and always descends at an internal node: its result is
\* never a tree node.
C18_FindNeverNode ==
    \A k \in QueryKeys : ~index_find(tree, k).isnode

(* Concurrent BTreeIndex.insert and find: insert runs one statement at a time *)
(* on the shared index, each thread at its own position                       *)

MaxThreads == 2
MaxCalls == 3

Idle == [pc |-> "idle"]

InsertLocked == { "root", "truncate_keys", "truncate_values", "promote", "publish",
                  "nonfull", "release" }

\* the threads inside the with-block of BTreeIndex.insert
Inside == { t \in DOMAIN threads : threads[t].pc \in InsertLocked }

AlwaysAcquire(l) == TRUE

\* with self.lock: a thread enters only while no thread holds the lock
CanAcquire(l) == l = None

\* the index after the inserts of ins[i..] applied one after another
RECURSIVE SequentialFrom(_, _, _)
SequentialFrom(idx, ins, i) ==
    IF i > Len(ins) THEN idx
    ELSE SequentialFrom(index_insert(idx, [name |-> ins[i][1][1]], ins[i][2]), ins, i + 1)

Sequential(ins) == SequentialFrom(BTreeIndex(<< "name" >>, btree_degree), ins, 1)

\* the inserts made before the threads start: keys 1..n, one after another,
\* up to a full root leaf
Preload(n) == [i \in 1..n |-> << << i >>, i >>]

LockInit ==
    /\ \E n \in 0..(2 * btree_degree - 1) :
         /\ inserted = Preload(n)
         /\ tree = Sequential(Preload(n))
    /\ files = NoFiles
    /\ indexes = << >>
    /\ ret = [op |-> "init"]
    /\ steps = 0
    /\ requested = {}
    /\ threads = [t \in 1..MaxThreads |-> Idle]
    /\ lock = None

\* a thread calls insert(doc, doc_id) and extracts the key
InsertCall(t) ==
    /\ threads[t].pc = "idle"
    /\ steps < MaxCalls
    /\ \E k \in 1..MaxKey :
         threads' = [threads EXCEPT ![t] =
            [pc |-> "acquire", key |-> extract_key(tree.fields, [name |-> k]), id |-> GenId(steps)]]
    /\ steps' = steps + 1
    /\ UNCHANGED << tree, inserted, files, indexes, ret, requested, lock >>

\* with self.lock; inserted records the order of acquisition
Acquire(t) ==
    /\ threads[t].pc = "acquire"
    /\ CanAcquire(lock)
    /\ lock' = t
    /\ inserted' = Append(inserted, << threads[t].key, threads[t].id >>)
    /\ threads' = [threads EXCEPT ![t].pc = "root"]
    /\ UNCHANGED << tree, files, indexes, ret, steps, requested >>

\* r = self.root; when r is full: s = BTreeNode(t, leaf=False),
\* s.values.append(r), and split_child's z with the upper keys and values of r
ReadRoot(t) ==
    /\ threads[t].pc = "root"
    /\ threads' = [threads EXCEPT ![t] =
          IF Len(tree.root.keys) = 2 * tree.t - 1
          THEN [pc |-> "truncate_keys", key |-> threads[t].key, id |-> threads[t].id,
                s |-> BTreeNode(tree.t, FALSE), z |-> SplitSibling(tree.root)]
          ELSE [threads[t] EXCEPT !.pc = "nonfull"]]
    /\ UNCHANGED << tree, inserted, files, indexes, ret, steps, requested, lock >>

UntruncatedKeys(y) == y.keys

\* y.keys[:t-1]
TruncatedKeys(y) == PySlice(y.keys, 0, y.t - 1)

\* y.keys = y.keys[:t-1], on the node self.root still names
TruncateKeys(t) ==
    /\ threads[t].pc = "truncate_keys"
    /\ tree' = [tree EXCEPT !.root.keys = TruncatedKeys(tree.root)]
    /\ threads' = [threads EXCEPT ![t].pc = "truncate_values"]
    /\ UNCHANGED << inserted, files, indexes, ret, steps, requested, lock >>

\* y.values = y.values[:t-1] if y.leaf else y.values[:t]
TruncateValues(t) ==
    /\ threads[t].pc = "truncate_values"
    /\ tree' = [tree EXCEPT !.root.values =
                  IF tree.root.leaf THEN PySlice(tree.root.values, 0, tree.t - 1)
                  ELSE PySlice(tree.root.values, 0, tree.t)]
    /\ threads' = [threads EXCEPT ![t].pc = "promote"]
    /\ UNCHANGED << inserted, files, indexes, ret, steps, requested, lock >>

\* self.keys.insert(i, y.keys.pop()); pop on an empty list raises IndexError,
\* which leaves the with-block and releases the lock
Promote(t) ==
    /\ threads[t].pc = "promote"
    /\ IF Len(tree.root.keys) = 0
       THEN /\ threads' = [threads EXCEPT ![t] = Idle]
            /\ lock' = None
            /\ UNCHANGED tree
       ELSE /\ threads' = [threads EXCEPT
                  ![t].pc = "publish",
                  ![t].s.keys = PyInsert(threads[t].s.keys, 0, tree.root.keys[Len(tree.root.keys)])]
            /\ tree' = [tree EXCEPT !.root.keys =
                          PySlice(tree.root.keys, 0, Len(tree.root.keys) - 1)]
            /\ UNCHANGED lock
    /\ UNCHANGED << inserted, files, indexes, ret, steps, requested >>

\* self.values.insert(i + 1, z) and self.root = s: s holds the node that was
\* the root, as the statements above left it, and z
Publish(t) ==
    /\ threads[t].pc = "publish"
    /\ tree' = [tree EXCEPT !.root =
                  [threads[t].s EXCEPT !.values = PyInsert(<< tree.root >>, 1, threads[t].z)]]
    /\ threads' = [threads EXCEPT ![t] =
                     [pc |-> "nonfull", key |-> threads[t].key, id |-> threads[t].id]]
    /\ UNCHANGED << inserted, files, indexes, ret, steps, requested, lock >>

\* self.root.insert_non_full(key, doc_id)
NonFull(t) ==
    /\ threads[t].pc = "nonfull"
    /\ tree' = [tree EXCEPT !.root = insert_non_full(tree.root, threads[t].key, threads[t].id)]
    /\ threads' = [threads EXCEPT ![t].pc = "release"]
    /\ UNCHANGED << inserted, files, indexes, ret, steps, requested, lock >>

\* the end of the with-block
Release(t) ==
    /\ threads[t].pc = "release"
    /\ lock' = None
    /\ threads' = [threads EXCEPT ![t] = Idle]
    /\ UNCHANGED << tree, inserted, files, indexes, ret, steps, requested >>

LockNext ==
    \/ \E t \in DOMAIN threads : InsertCall(t)
    \/ \E t \in DOMAIN threads : Acquire(t)
    \/ \E t \in DOMAIN threads : ReadRoot(t)
    \/ \E t \in DOMAIN threads : TruncateKeys(t)
    \/ \E t \in DOMAIN threads : TruncateValues(t)
    \/ \E t \in DOMAIN threads : Promote(t)
    \/ \E t \in DOMAIN threads : Publish(t)
    \/ \E t \in DOMAIN threads : NonFull(t)
    \/ \E t \in DOMAIN threads : Release(t)

SpecLock == LockInit /\ [][LockNext]_vars

(* C13 *)

\* C13: concurrent inserts are serialized by the index lock: at most one
\* thread is inside the locked section, and whenever the lock is free the
\* tree is the one the same inserts give when run one after another in the
\* order the lock was acquired.
C13_Serialized ==
    /\ Cardinality(Inside) <= 1
    /\ Inside # {} => lock \in Inside
    /\ lock = None => tree = Sequential(inserted)

\* two threads have called insert, one is inside a root split and the other
\* waits for the lock
C13_Contended ==
    \E t, u \in DOMAIN threads :
        /\ threads[t].pc = "publish"
        /\ threads[u].pc = "acquire"

(* Concurrent find: one thread inserts, another calls find between any two *)
(* of its statements                                                       *)

FindInit ==
    /\ \E n \in 0..(2 * btree_degree - 1) :
         /\ inserted = Preload(n)
         /\ tree = Sequential(Preload(n))
    /\ files = NoFiles
    /\ indexes = << >>
    /\ ret = [op |-> "init"]
    /\ steps = 0
    /\ requested = {}
    /\ threads = [t \in { 1 } |-> Idle]
    /\ lock = None

\* the inserts that completed before the one in progress, if any
Completed == IF lock = None THEN inserted ELSE SubSeq(inserted, 1, Len(inserted) - 1)

\* the insert in progress has cut the old root's keys and not yet made the
\* new root visible, and key is one the old root leaf held above its middle
MidSplit(key) ==
    /\ lock # None
    /\ threads[lock].pc \in { "truncate_values", "promote", "publish" }
    /\ threads[lock].z.leaf
    /\ key \in Range(threads[lock].z.keys)
    /\ key # threads[lock].key

\* BTreeIndex.find: self.root.search(key_tuple), no lock taken.  ret keeps
\* whether the answer differs from find's answer before the insert in
\* progress began and from its answer once that insert is complete.
Find(k) ==
    LET key    == << k >>
        r      == index_find(tree, key)
        before == index_find(Sequential(Completed), key)
        after  == index_find(Sequential(inserted), key)
    IN  /\ ret' = [op |-> "find", key |-> key, midsplit |-> MidSplit(key),
                   empty |-> ~r.isnode /\ r.val = << >>,
                   torn |-> r # before /\ r # after]
        /\ UNCHANGED << tree, inserted, files, indexes, steps, requested, threads, lock >>

FindNext ==
    \/ \E t \in DOMAIN threads : InsertCall(t)
    \/ \E t \in DOMAIN threads : Acquire(t)
    \/ \E t \in DOMAIN threads : ReadRoot(t)
    \/ \E t \in DOMAIN threads : TruncateKeys(t)
    \/ \E t \in DOMAIN threads : TruncateValues(t)
    \/ \E t \in DOMAIN threads : Promote(t)
    \/ \E t \in DOMAIN threads : Publish(t)
    \/ \E t \in DOMAIN threads : NonFull(t)
    \/ \E t \in DOMAIN threads : Release(t)
    \/ \E k \in 1..MaxKey : Find(k)

SpecFind == FindInit /\ [][FindNext]_vars

(* C20 *)

\* C20: find takes no lock, so a find that runs while an insert is splitting
\* the root can return, for a key that insert does not touch, an answer that
\* is neither the answer before the insert nor the answer after it: between
\* the cut of the old root's keys and the publication of the new root, find
\* for a key of the old root's upper half returns [] although the key is
\* indexed before and after.
C20_MidSplitFind ==
    (ret.op = "find" /\ ret.midsplit) => (ret.torn /\ ret.empty)

\* a find has run in the middle of a root split and returned a torn answer
C20_TornRead == ret.op = "find" /\ ret.midsplit /\ ret.torn

(* load_docs running beside insert and delete: the listing is taken once, *)
(* the files are then opened one at a time                                *)

VanishInit ==
    /\ tree = BTreeIndex(<< "name" >>, btree_degree)
    /\ inserted = << >>
    /\ files = NoFiles
    /\ indexes = << >>
    /\ ret = [op |-> "init"]
    /\ steps = 0
    /\ requested = {}
    /\ threads = [t \in { 1 } |-> Idle]
    /\ lock = None

\* files = os.listdir(self.path), narrowed to the members of ids when ids
\* is given
LoadListing(t) ==
    /\ threads[t].pc # "loading"
    /\ steps < MaxSteps
    /\ \E ids \in IdArgs, order \in Listings(files) :
         threads' = [threads EXCEPT ![t] =
            [pc |-> "loading", todo |-> LoadList(files, ids, order), docs |-> << >>]]
    /\ steps' = steps + 1
    /\ UNCHANGED << tree, inserted, files, indexes, ret, requested, lock >>

\* _load_json of the next listed file: open raises FileNotFoundError when
\* the file is gone, and nothing in load_docs catches it
LoadOpen(t) ==
    /\ threads[t].pc = "loading"
    /\ threads[t].todo # << >>
    /\ threads' = [threads EXCEPT ![t] =
          IF Head(threads[t].todo) \in DOMAIN files
          THEN [pc |-> "loading", todo |-> Tail(threads[t].todo),
                docs |-> Append(threads[t].docs, files[Head(threads[t].todo)])]
          ELSE [pc |-> "raised"]]
    /\ UNCHANGED << tree, inserted, files, indexes, ret, steps, requested, lock >>

\* the list comprehension is exhausted: load_docs returns the documents
LoadReturn(t) ==
    /\ threads[t].pc = "loading"
    /\ threads[t].todo = << >>
    /\ ret' = [op |-> "load_docs", err |-> FALSE, docs |-> threads[t].docs]
    /\ threads' = [threads EXCEPT ![t] = Idle]
    /\ UNCHANGED << tree, inserted, files, indexes, steps, requested, lock >>

VanishNext ==
    \/ CollInsert
    \/ CollDelete
    \/ \E t \in DOMAIN threads : LoadListing(t)
    \/ \E t \in DOMAIN threads : LoadOpen(t)
    \/ \E t \in DOMAIN threads : LoadReturn(t)

SpecVanish == VanishInit /\ [][VanishNext]_vars

(* C14 *)

\* C14: a load_docs that runs while another thread deletes a document it has
\* listed skips the vanished document; it never fails.
C14_LoaderTolerates == \A t \in DOMAIN threads : threads[t].pc # "raised"

(* create_index running beside insert: thread 1 creates indexes, thread 2 *)
(* inserts documents                                                      *)

Creator == 1
Inserter == 2

RaceInit ==
    /\ tree = BTreeIndex(<< "name" >>, btree_degree)
    /\ inserted = << >>
    /\ files = NoFiles
    /\ indexes = << >>
    /\ ret = [op |-> "init"]
    /\ steps = 0
    /\ requested = {}
    /\ threads = [t \in { Creator, Inserter } |-> Idle]
    /\ lock = None

\* create_index up to the listing: the early return for a registered key,
\* idx = BTreeIndex(key, ...), and os.listdir(self.path)
CreateList ==
    /\ threads[Creator].pc = "idle"
    /\ steps < MaxSteps
    /\ \E key \in IndexKeys, order \in Listings(files) :
         threads' = [threads EXCEPT ![Creator] =
            IF HasIndex(indexes, key) THEN Idle
            ELSE [pc |-> "backfill", idx |-> BTreeIndex(key, btree_degree), order |-> order]]
    /\ steps' = steps + 1
    /\ UNCHANGED << tree, inserted, files, indexes, ret, requested, lock >>

\* the loop over the listing: every listed document is loaded and inserted
\* into idx, which no other thread can see yet
CreateBackfill ==
    /\ threads[Creator].pc = "backfill"
    /\ threads' = [threads EXCEPT
          ![Creator].pc = "register",
          ![Creator].idx = Backfill(threads[Creator].idx, files, threads[Creator].order, 1)]
    /\ UNCHANGED << tree, inserted, files, indexes, ret, steps, requested, lock >>

\* self.indexes[key] = idx
CreateRegister ==
    /\ threads[Creator].pc = "register"
    /\ indexes' = Append(indexes, threads[Creator].idx)
    /\ threads' = [threads EXCEPT ![Creator] = Idle]
    /\ UNCHANGED << tree, inserted, files, ret, steps, requested, lock >>

\* the creator has listed the directory and not yet registered its index
Enumerated == threads[Creator].pc \in { "backfill", "register" }

\* Collection.insert up to _dump_json, for a document without _id; listed
\* records that the file appeared after the creator's listing, at records
\* the number of indexes registered then
InsertDump ==
    /\ threads[Inserter].pc = "idle"
    /\ steps < MaxSteps
    /\ Cardinality(DOMAIN files) < MaxDocs
    /\ \E n \in Names, a \in Ages :
         LET doc_id == InsertId(files, [name |-> n, age |-> a])
             d      == [_id |-> doc_id, name |-> n, age |-> a]
         IN  /\ files' = Put(files, doc_id, d)
             /\ threads' = [threads EXCEPT ![Inserter] =
                   [pc |-> "update_indexes", doc |-> d, listed |-> Enumerated,
                    at |-> Len(indexes)]]
    /\ steps' = steps + 1
    /\ UNCHANGED << tree, inserted, indexes, ret, requested, lock >>

\* self._update_indexes(doc) and return: the document goes into the indexes
\* registered at this moment.  raced records that the creator's listing came
\* before the file and its registration comes after this step.
InsertUpdateIndexes ==
    /\ threads[Inserter].pc = "update_indexes"
    /\ indexes' = update_indexes(indexes, threads[Inserter].doc)
    /\ threads' = [threads EXCEPT ![Inserter] =
          [pc |-> "idle", doc |-> threads[Inserter].doc,
           raced |-> threads[Inserter].listed /\ Enumerated
                     /\ Len(indexes) = threads[Inserter].at,
           at |-> Len(indexes) + 1]]
    /\ UNCHANGED << tree, inserted, files, ret, steps, requested, lock >>

RaceNext ==
    \/ CreateList
    \/ CreateBackfill
    \/ CreateRegister
    \/ InsertDump
    \/ InsertUpdateIndexes

SpecRace == RaceInit /\ [][RaceNext]_vars

(* C19 *)

\* the identifiers held in the buckets of the tree
IdsIn(idx) ==
    UNION { UNION { Range(n.values[i]) : i \in 1..Len(n.values) } :
            n \in { m \in NodesOf(idx.root) : m.leaf } }

\* the last insert fell between the creator's listing and its registration,
\* and that index is registered now
Raced ==
    /\ "raced" \in DOMAIN threads[Inserter]
    /\ threads[Inserter].raced
    /\ Len(indexes) >= threads[Inserter].at

\* C19: an insert that lands between create_index's enumeration of the
\* directory and the registration of the new index leaves its document
\* persisted, but the backfill has missed it and the insert never reaches
\* the new index: the index does not hold the document's identifier.
C19_MissedByBackfill ==
    Raced =>
        LET d   == threads[Inserter].doc
            idx == indexes[threads[Inserter].at]
            r   == index_find(idx, extract_key(idx.fields, d))
        IN  /\ d._id \in DOMAIN files /\ files[d._id] = d
            /\ d._id \notin IdsIn(idx)
            /\ r.isnode \/ d._id \notin Range(r.val)

\* such an insert has happened and the index it raced with is registered
C19_InsertRaced == Raced /\ threads[Creator].pc = "idle"

====
